---- MODULE Spec2Model ----
(***************************************************************************)
(* Model of src/app.js: an express server with two POST routes             *)
(* (/api/record_audio, /api/synthesize) and a static GET route (/audio)    *)
(* over the directory audio_files.  Handlers run on one thread and         *)
(* interleave only at their awaits (the three external service calls).     *)
(*                                                                         *)
(* A string that is used as a path is modelled by its "/"-separated        *)
(* segments: "a.webm" is <<"a.webm">>, "./a.webm" is <<".", "a.webm">>,    *)
(* the empty string is <<"">>.  A multipart field that is absent is <<>>.  *)
(***************************************************************************)
EXTENDS Integers, Sequences, FiniteSets, TLC

\* ---------------------------------------------------------------- bounds
NReq == 2       \* number of requests the clients send in one run
MaxTime == 2    \* the clock (Date.now()) runs from 1 to MaxTime

Req == 1..NReq

\* ---------------------------------------------------------------- values
Undefined == "undefined"       \* the JavaScript value undefined
NoFileName == <<>>             \* req.body.fileName when the field is absent
ServiceError == "error"        \* an external call that rejects

\* what the clients may send
AudioFiles == {Undefined, "webm"}
FileNames == {NoFileName, <<"">>, <<"a.webm">>, <<".", "a.webm">>,
              <<"output_1.wav">>, <<"nodir", "a.webm">>}
Texts == {Undefined, "", "hello"}

\* what the external services may answer
RecognizeOutcomes == {ServiceError, "hola"}
TranslateOutcomes == {ServiceError, "hello"}
SynthesizeOutcomes == {ServiceError, "pcm"}

NoError == [code |-> "none", syscall |-> "none"]
NoRes == [status |-> 0]
NoReq == [route |-> "none"]
NoGet == [url |-> "none", status |-> 0, body |-> Undefined]

VARIABLES
    files,          \* the directory audio_files: path -> content
    now,            \* Date.now()
    req,            \* per request: the route and what the client sent
    pc,             \* per request: where its handler is suspended
    transcription,  \* per request: the local of the record_audio handler
    audioBuffer,    \* per request: the local of the synthesize handler
    res,            \* per request: the response sent (NoRes before)
    calls,          \* the external calls made: <<request, api>>
    got             \* the response to the last GET /audio/<name>

vars == <<files, now, req, pc, transcription, audioBuffer, res, calls, got>>

\* ---------------------------------------------------------------- path
\* path.join normalises lexically: "" and "." segments are dropped and
\* ".." removes the segment before it.
RECURSIVE Normalize(_, _)
Normalize(segs, acc) ==
    IF segs = <<>> THEN acc
    ELSE LET s == Head(segs) IN
         IF s = "" \/ s = "." THEN Normalize(Tail(segs), acc)
         ELSE IF s = ".." /\ acc # <<>> /\ acc[Len(acc)] # ".."
              THEN Normalize(Tail(segs), SubSeq(acc, 1, Len(acc) - 1))
              ELSE Normalize(Tail(segs), Append(acc, s))

\* path.join(__dirname, 'audio_files', fileName), relative to audio_files
PathJoin(fileName) == Normalize(fileName, <<>>)

\* `output_${Date.now()}.wav`
OutputName(t) == "output_" \o ToString(t) \o ".wav"

\* `http://localhost:3001/audio/${audioFileName}`
AudioURL(name) == "http://localhost:3001/audio/" \o name

\* the names a file of audio_files can have in this model
Names ==
    {p[1] : p \in {q \in {PathJoin(f) : f \in FileNames} : Len(q) = 1}}
        \cup {OutputName(t) : t \in 1..MaxTime}

URLs == {AudioURL(n) : n \in Names}

\* ---------------------------------------------------------------- fs
Remove(fs, p) == [q \in DOMAIN fs \ {p} |-> fs[q]]

\* fs.writeFileSync(path, data): the data is validated before the file is
\* opened; audio_files has no subdirectory, so only a plain name can be opened.
WriteFileSyncCoerces(fs, p, data) ==
    IF p = <<>> THEN [error |-> [code |-> "EISDIR", syscall |-> "open"], files |-> fs]
    ELSE IF Len(p) # 1 \/ p[1] = ".."
    THEN [error |-> [code |-> "ENOENT", syscall |-> "open"], files |-> fs]
    ELSE [error |-> NoError, files |-> [q \in DOMAIN fs \cup {p} |-> IF q = p THEN data ELSE fs[q]]]

writeFileSync(fs, p, data) ==
    IF data = Undefined
    THEN [error |-> [code |-> "ERR_INVALID_ARG_TYPE", syscall |-> "none"], files |-> fs]
    ELSE IF p = <<>> THEN [error |-> [code |-> "EISDIR", syscall |-> "open"], files |-> fs]
    ELSE IF Len(p) # 1 \/ p[1] = ".."
    THEN [error |-> [code |-> "ENOENT", syscall |-> "open"], files |-> fs]
    ELSE [error |-> NoError, files |-> [q \in DOMAIN fs \cup {p} |-> IF q = p THEN data ELSE fs[q]]]

\* fs.unlinkSync(path): throws ENOENT when there is no such file
UnlinkSyncInverted(fs, p) ==
    IF p \in DOMAIN fs
    THEN [error |-> [code |-> "ENOENT", syscall |-> "unlink"], files |-> fs]
    ELSE [error |-> NoError, files |-> Remove(fs, p)]

UnlinkSyncKeeps(fs, p) ==
    IF p \notin DOMAIN fs
    THEN [error |-> [code |-> "ENOENT", syscall |-> "unlink"], files |-> fs]
    ELSE [error |-> NoError, files |-> fs]

unlinkSync(fs, p) ==
    IF p \notin DOMAIN fs
    THEN [error |-> [code |-> "ENOENT", syscall |-> "unlink"], files |-> fs]
    ELSE [error |-> NoError, files |-> Remove(fs, p)]

\* express.static on /audio: the file named by the URL, or 404
Static(fs, url) ==
    LET n == CHOOSE n \in Names : AudioURL(n) = url IN
    IF <<n>> \in DOMAIN fs
    THEN [url |-> url, status |-> 200, body |-> fs[<<n>>]]
    ELSE [url |-> url, status |-> 404, body |-> Undefined]

\* ---------------------------------------------------------------- adapters
\* each adapter catches the rejection, logs it and returns undefined
speechToText(outcome) == IF outcome = ServiceError THEN Undefined ELSE outcome
translateText(outcome) == IF outcome = ServiceError THEN Undefined ELSE outcome
synthesizer(outcome) == IF outcome = ServiceError THEN Undefined ELSE outcome

\* ---------------------------------------------------------------- validation
\* !audioFile || !fileName
MissingUploadIgnoresName(audioFile, fileName) == audioFile = Undefined

MissingUpload(audioFile, fileName) ==
    audioFile = Undefined \/ fileName = NoFileName \/ fileName = <<"">>

\* !text
MissingTextIgnoresEmpty(text) == text = Undefined

MissingText(text) == text = Undefined \/ text = ""

\* ---------------------------------------------------------------- state
Init ==
    /\ files = <<>>
    /\ now = 1
    /\ req = [r \in Req |-> NoReq]
    /\ pc = [r \in Req |-> "idle"]
    /\ transcription = [r \in Req |-> Undefined]
    /\ audioBuffer = [r \in Req |-> Undefined]
    /\ res = [r \in Req |-> NoRes]
    /\ calls = {}
    /\ got = NoGet

\* ---------------------------------------------------------------- record_audio
\* POST /api/record_audio up to its first await: validate, write the scratch
\* file, call the transcription service.
RecordAudio(r, audioFile, fileName) ==
    /\ pc[r] = "idle"
    /\ req' = [req EXCEPT ![r] =
                  [route |-> "record_audio", file |-> audioFile, fileName |-> fileName]]
    /\ IF MissingUpload(audioFile, fileName)
       THEN /\ res' = [res EXCEPT ![r] =
                          [status |-> 400, error |-> "Audio data and file name are required"]]
            /\ pc' = [pc EXCEPT ![r] = "done"]
            /\ UNCHANGED <<files, calls>>
       ELSE LET w == writeFileSync(files, PathJoin(fileName), audioFile) IN
            IF w.error # NoError
            THEN /\ res' = [res EXCEPT ![r] = [status |-> 500, error |-> w.error]]
                 /\ pc' = [pc EXCEPT ![r] = "done"]
                 /\ UNCHANGED <<files, calls>>
            ELSE /\ files' = w.files
                 /\ calls' = calls \cup {<<r, "recognize">>}
                 /\ pc' = [pc EXCEPT ![r] = "recognize"]
                 /\ UNCHANGED res
    /\ UNCHANGED <<now, transcription, audioBuffer, got>>

\* client.recognize settles: speechToText returns, the handler deletes the
\* scratch file and calls the translation service.
RecognizeReturns(r, outcome) ==
    /\ pc[r] = "recognize"
    /\ transcription' = [transcription EXCEPT ![r] = speechToText(outcome)]
    /\ LET u == unlinkSync(files, PathJoin(req[r].fileName)) IN
       IF u.error # NoError
       THEN /\ res' = [res EXCEPT ![r] = [status |-> 500, error |-> u.error]]
            /\ pc' = [pc EXCEPT ![r] = "done"]
            /\ UNCHANGED <<files, calls>>
       ELSE /\ files' = u.files
            /\ calls' = calls \cup {<<r, "translate">>}
            /\ pc' = [pc EXCEPT ![r] = "translate"]
            /\ UNCHANGED res
    /\ UNCHANGED <<now, req, audioBuffer, got>>

\* translateClient.translate settles: translateText returns and the handler
\* responds.
TranslateReturns(r, outcome) ==
    /\ pc[r] = "translate"
    /\ res' = [res EXCEPT ![r] =
                  [status |-> 200, message |-> "Transcription successful",
                   audioTranscription |-> transcription[r],
                   translatedText |-> translateText(outcome)]]
    /\ pc' = [pc EXCEPT ![r] = "done"]
    /\ UNCHANGED <<files, now, req, transcription, audioBuffer, calls, got>>

\* ---------------------------------------------------------------- synthesize
\* POST /api/synthesize up to its await: validate, call the synthesis service.
Synthesize(r, text) ==
    /\ pc[r] = "idle"
    /\ req' = [req EXCEPT ![r] = [route |-> "synthesize", text |-> text]]
    /\ IF MissingText(text)
       THEN /\ res' = [res EXCEPT ![r] =
                          [status |-> 400, error |-> "Text is required for synthesis"]]
            /\ pc' = [pc EXCEPT ![r] = "done"]
            /\ UNCHANGED calls
       ELSE /\ calls' = calls \cup {<<r, "synthesizeSpeech">>}
            /\ pc' = [pc EXCEPT ![r] = "synthesizeSpeech"]
            /\ UNCHANGED res
    /\ UNCHANGED <<files, now, transcription, audioBuffer, got>>

\* ttsClient.synthesizeSpeech settles: synthesizer returns, the handler names
\* the output by the clock, writes it and responds with its URL.
SynthesizeReturns(r, outcome) ==
    /\ pc[r] = "synthesizeSpeech"
    /\ audioBuffer' = [audioBuffer EXCEPT ![r] = synthesizer(outcome)]
    /\ LET audioFileName == OutputName(now)
           w == writeFileSync(files, <<audioFileName>>, synthesizer(outcome))
       IN  IF w.error # NoError
           THEN /\ res' = [res EXCEPT ![r] =
                              [status |-> 500, error |-> "Failed to synthesize text"]]
                /\ UNCHANGED files
           ELSE /\ files' = w.files
                /\ res' = [res EXCEPT ![r] =
                              [status |-> 200, audioURL |-> AudioURL(audioFileName)]]
    /\ pc' = [pc EXCEPT ![r] = "done"]
    /\ UNCHANGED <<now, req, transcription, calls, got>>

\* ---------------------------------------------------------------- the rest
\* GET /audio/<name>
GetAudio(url) ==
    /\ got' = Static(files, url)
    /\ UNCHANGED <<files, now, req, pc, transcription, audioBuffer, res, calls>>

\* a millisecond passes
Tick ==
    /\ now < MaxTime
    /\ now' = now + 1
    /\ UNCHANGED <<files, req, pc, transcription, audioBuffer, res, calls, got>>

Next ==
    \/ \E r \in Req, a \in AudioFiles, f \in FileNames : RecordAudio(r, a, f)
    \/ \E r \in Req, o \in RecognizeOutcomes : RecognizeReturns(r, o)
    \/ \E r \in Req, o \in TranslateOutcomes : TranslateReturns(r, o)
    \/ \E r \in Req, t \in Texts : Synthesize(r, t)
    \/ \E r \in Req, o \in SynthesizeOutcomes : SynthesizeReturns(r, o)
    \/ \E u \in URLs : GetAudio(u)
    \/ Tick

Spec == Init /\ [][Next]_vars

\* ---------------------------------------------------------------- vocabulary
IsRecord(r) == req[r].route = "record_audio"
IsSynth(r) == req[r].route = "synthesize"

\* a record_audio request that carries both audioData and fileName
HasBothFields(r) ==
    /\ IsRecord(r)
    /\ req[r].file # Undefined
    /\ req[r].fileName # NoFileName
    /\ req[r].fileName # <<"">>

\* audio_files/<fileName> of a record_audio request
FilePath(r) == PathJoin(req[r].fileName)

WriteFailed(r) == IsRecord(r) /\ res[r].status = 500 /\ res[r].error.syscall = "open"
UnlinkFailed(r) == IsRecord(r) /\ res[r].status = 500 /\ res[r].error.syscall = "unlink"

\* the request wrote its scratch file / ran its unlink step without an exception
Wrote(r) == <<r, "recognize">> \in calls
Unlinked(r) == <<r, "translate">> \in calls

Synth200(r) == IsSynth(r) /\ res[r].status = 200
NameOf(url) == CHOOSE n \in Names : AudioURL(n) = url

\* ---------------------------------------------------------------- C1
\* C1 (as claimed): every record_audio request that carries both fields
\* responds 200 and, when it responds, no file exists at audio_files/<fileName>,
\* unless an exception was raised before its unlink step (by the write).
C1_Always200AndScratchGone ==
    [][\A r \in Req :
          (pc[r] # "done" /\ pc'[r] = "done" /\ req'[r].route = "record_audio"
           /\ req'[r].file # Undefined /\ req'[r].fileName # NoFileName
           /\ req'[r].fileName # <<"">>)
          => \/ res'[r].status = 200 /\ PathJoin(req'[r].fileName) \notin DOMAIN files'
             \/ res'[r].status = 500 /\ res'[r].error.syscall = "open"]_vars

\* ---------------------------------------------------------------- C2
\* C2: a record_audio request with audioData or fileName missing is answered
\* 400 with an error field in the step that receives it, and that step leaves
\* audio_files and the external calls as they were: nothing is written or
\* deleted and neither adapter is called for it.
C2_MissingFieldIs400 ==
    [][\A r \in Req :
          (pc[r] = "idle" /\ req'[r].route = "record_audio"
           /\ (\/ req'[r].file = Undefined
               \/ req'[r].fileName = NoFileName
               \/ req'[r].fileName = <<"">>))
          => /\ pc'[r] = "done"
             /\ res'[r].status = 400
             /\ "error" \in DOMAIN res'[r]
             /\ files' = files
             /\ calls' = calls
             /\ \A api \in {"recognize", "translate"} : <<r, api>> \notin calls']_vars

\* a request without fileName was refused while another request's scratch
\* file was in audio_files
C2_Witness ==
    \E r, r2 \in Req :
        /\ IsRecord(r) /\ req[r].file # Undefined /\ req[r].fileName = NoFileName
        /\ res[r].status = 400
        /\ pc[r2] = "recognize" /\ FilePath(r2) \in DOMAIN files

\* ---------------------------------------------------------------- C3
\* C3: a synthesize request whose text is missing or empty is answered 400 in
\* the step that receives it; the synthesis service is not called for it and
\* audio_files is left as it was.
C3_MissingTextIs400 ==
    [][\A r \in Req :
          (pc[r] = "idle" /\ req'[r].route = "synthesize"
           /\ (req'[r].text = Undefined \/ req'[r].text = ""))
          => /\ pc'[r] = "done"
             /\ res'[r].status = 400
             /\ <<r, "synthesizeSpeech">> \notin calls'
             /\ files' = files]_vars

\* an empty text was refused after another synthesis had written its output
C3_Witness ==
    \E r, r2 \in Req :
        /\ IsSynth(r) /\ req[r].text = "" /\ res[r].status = 400
        /\ Synth200(r2) /\ DOMAIN files # {}

\* ---------------------------------------------------------------- C4
\* C4 (as claimed): two synthesize requests that both got 200 were given
\* different audioURLs (different output names).
C4_DistinctOutputs ==
    \A r1, r2 \in Req :
        (r1 # r2 /\ Synth200(r1) /\ Synth200(r2))
        => res[r1].audioURL # res[r2].audioURL

\* ---------------------------------------------------------------- C5
\* C5 (as claimed): at any time after a synthesize request got 200 with
\* audioURL u, GET u answers 200 with the bytes that request's synthesis
\* returned.
C5_URLServesOwnAudio ==
    \A r \in Req :
        Synth200(r)
        => Static(files, res[r].audioURL)
             = [url |-> res[r].audioURL, status |-> 200, body |-> audioBuffer[r]]

\* ---------------------------------------------------------------- C6
\* C6 (as claimed): the output file of every synthesize request that got 200
\* still exists, whatever requests followed.
C6_OutputNeverDeleted ==
    \A r \in Req :
        Synth200(r) => <<NameOf(res[r].audioURL)>> \in DOMAIN files

\* ---------------------------------------------------------------- C7
\* C7 (as claimed): a record_audio request whose transcription call failed
\* has, once it responded, deleted its scratch file, called the translation
\* adapter and got 200 with audioTranscription undefined; and a request whose
\* translation call was made gets 200.
C7_FailureAbsorbed ==
    \A r \in Req :
        (IsRecord(r) /\ pc[r] = "done" /\ Wrote(r) /\ transcription[r] = Undefined)
        => /\ Unlinked(r)
           /\ res[r].status = 200
           /\ res[r].audioTranscription = Undefined

\* ---------------------------------------------------------------- C8
\* C8: when the synthesis call of a synthesize request fails, the step that
\* resumes the handler answers 500 with an error field (never 200 with an
\* audioURL) and leaves audio_files as it was: no output file is created.
C8_SynthesisFailureIs500 ==
    [][\A r \in Req :
          (pc[r] = "synthesizeSpeech" /\ pc'[r] = "done" /\ audioBuffer'[r] = Undefined)
          => /\ res'[r].status = 500
             /\ "error" \in DOMAIN res'[r]
             /\ "audioURL" \notin DOMAIN res'[r]
             /\ files' = files]_vars

\* a synthesis failed and was answered 500 while another one's output exists
C8_Witness ==
    \E r, r2 \in Req :
        /\ IsSynth(r) /\ <<r, "synthesizeSpeech">> \in calls
        /\ pc[r] = "done" /\ audioBuffer[r] = Undefined /\ res[r].status = 500
        /\ Synth200(r2) /\ DOMAIN files # {}

\* ---------------------------------------------------------------- C9
\* C9: the scratch path is shared without a lock: the delete step of a
\* request fails only when another record_audio request with the same scratch
\* path has run its own delete step, which removed the file this request
\* wrote (the witness is such a run).
C9_UnlinkFailsByRace ==
    \A r \in Req :
        UnlinkFailed(r)
        => \E r2 \in Req \ {r} :
               /\ HasBothFields(r2)
               /\ FilePath(r2) = FilePath(r)
               /\ Wrote(r2)
               /\ Unlinked(r2)

\* two requests with the same fileName both wrote; one deleted the shared
\* file and went on to translate, the other's delete then failed
C9_Witness ==
    \E r1, r2 \in Req :
        /\ r1 # r2
        /\ HasBothFields(r1) /\ HasBothFields(r2)
        /\ req[r1].fileName = req[r2].fileName
        /\ Wrote(r1) /\ Wrote(r2)
        /\ Unlinked(r1) /\ pc[r1] = "translate"
        /\ UnlinkFailed(r2) /\ ~Unlinked(r2)
        /\ FilePath(r2) \notin DOMAIN files

\* ---------------------------------------------------------------- C10
\* what each request with a written scratch file is promised under isolation
IsolationHolds ==
    \A r \in Req :
        (HasBothFields(r) /\ ~WriteFailed(r))
        => /\ pc[r] = "recognize"
                => FilePath(r) \in DOMAIN files /\ files[FilePath(r)] = req[r].file
           /\ pc[r] = "translate" => FilePath(r) \notin DOMAIN files
           /\ pc[r] = "done"
                => res[r].status = 200 /\ FilePath(r) \notin DOMAIN files

\* the fileName values are pairwise distinct and differ from every output name
DistinctFileNames ==
    /\ \A r1, r2 \in Req :
          (r1 # r2 /\ HasBothFields(r1) /\ HasBothFields(r2))
          => req[r1].fileName # req[r2].fileName
    /\ \A r1, r2 \in Req :
          (HasBothFields(r1) /\ Synth200(r2))
          => req[r1].fileName # <<NameOf(res[r2].audioURL)>>

\* the scratch paths are pairwise distinct and differ from every output path
DistinctFilePaths ==
    /\ \A r1, r2 \in Req :
          (r1 # r2 /\ HasBothFields(r1) /\ HasBothFields(r2))
          => FilePath(r1) # FilePath(r2)
    /\ \A r1, r2 \in Req :
          (HasBothFields(r1) /\ Synth200(r2))
          => FilePath(r1) # <<NameOf(res[r2].audioURL)>>

====
